---- MODULE Spec2Model ----
(***************************************************************************)
(* Model of RestClient (src/deribit_api.py): the generic request executor, *)
(* the signature generator and the endpoint methods.                       *)
(*                                                                         *)
(* Python strings are sequences of one-character strings, so that prefix   *)
(* tests, lexicographic sorting and concatenation are computed character   *)
(* by character.  Python values are tagged records:                        *)
(*   [t |-> "none"]            None                                        *)
(*   [t |-> "str",  s |-> cs]  str                                         *)
(*   [t |-> "int",  i |-> n]   int                                         *)
(*   [t |-> "bool", b |-> x]   bool                                        *)
(*   [t |-> "list", l |-> ss]  list of str                                 *)
(* A dict is the sequence of its [k, v] items in insertion order.  Float    *)
(* values are left out: nothing modelled here depends on how they print.   *)
(* The transport always answers; a reply is a status code and a body that  *)
(* decodes to an envelope or does not decode.                              *)
(***************************************************************************)
EXTENDS Integers, Sequences, FiniteSets, TLC

VARIABLES key, secret, url, ctor, pc, call, callerData, http, sigs, outcome,
          signA, signB, signRel, sigA, sigB

vars == <<key, secret, url, ctor, pc, call, callerData, http, sigs, outcome,
          signA, signB, signRel, sigA, sigB>>

clientVars == <<key, secret, url, ctor, pc, call, callerData, http, sigs, outcome>>
signVars == <<signA, signB, signRel, sigA, sigB>>

(***************************************************************************)
(* Bounds                                                                  *)
(***************************************************************************)
\* clock readings are MaxTstamp - 1 and MaxTstamp (one and two digits)
MaxTstamp == 10
\* largest number of entries of a params mapping handed to generate_signature
MaxParams == 2

(***************************************************************************)
(* Python values                                                           *)
(***************************************************************************)
None == [t |-> "none"]
PyStr(cs) == [t |-> "str", s |-> cs]
PyInt(n) == [t |-> "int", i |-> n]
PyBool(x) == [t |-> "bool", b |-> x]
PyList(ss) == [t |-> "list", l |-> ss]

\* bool(value), as `if value:` evaluates it
Truthy(v) ==
    CASE v.t = "none" -> FALSE
      [] v.t = "str" -> v.s # <<>>
      [] v.t = "int" -> v.i # 0
      [] v.t = "bool" -> v.b
      [] v.t = "list" -> v.l # <<>>

\* value == False
EqFalse(v) ==
    CASE v.t = "bool" -> ~v.b
      [] v.t = "int" -> v.i = 0
      [] OTHER -> FALSE

Digit(d) == <<"0", "1", "2", "3", "4", "5", "6", "7", "8", "9">>[d + 1]

RECURSIVE IntToStr(_)
IntToStr(n) == IF n < 10 THEN <<Digit(n)>> ELSE IntToStr(n \div 10) \o <<Digit(n % 10)>>

\* str(value) of a value that is not a list
Str(v) ==
    CASE v.t = "none" -> <<"N", "o", "n", "e">>
      [] v.t = "str" -> v.s
      [] v.t = "int" -> IntToStr(v.i)
      [] v.t = "bool" -> IF v.b THEN <<"T", "r", "u", "e">> ELSE <<"F", "a", "l", "s", "e">>

\* ''.join(list)
RECURSIVE JoinEmpty(_)
JoinEmpty(ss) == IF ss = <<>> THEN <<>> ELSE Head(ss) \o JoinEmpty(Tail(ss))

\* sep.join(list)
RECURSIVE Join(_, _)
Join(sep, ss) ==
    IF ss = <<>> THEN <<>>
    ELSE IF Len(ss) = 1 THEN Head(ss)
    ELSE Head(ss) \o sep \o Join(sep, Tail(ss))

Lower == <<"a", "b", "c", "d", "e", "f", "g", "h", "i", "j", "k", "l", "m",
           "n", "o", "p", "q", "r", "s", "t", "u", "v", "w", "x", "y", "z">>
Upper == <<"A", "B", "C", "D", "E", "F", "G", "H", "I", "J", "K", "L", "M",
           "N", "O", "P", "Q", "R", "S", "T", "U", "V", "W", "X", "Y", "Z">>

\* ord(c): the code point, which orders Python strings
OrdTable ==
    [c \in {Lower[n] : n \in 1..26} |-> 96 + (CHOOSE n \in 1..26 : Lower[n] = c)]
    @@ [c \in {Upper[n] : n \in 1..26} |-> 64 + (CHOOSE n \in 1..26 : Upper[n] = c)]
    @@ [c \in {Digit(n) : n \in 0..9} |-> 48 + (CHOOSE n \in 0..9 : Digit(n) = c)]
    @@ (" " :> 32) @@ ("&" :> 38) @@ ("-" :> 45) @@ ("." :> 46) @@ ("/" :> 47)
    @@ (":" :> 58) @@ ("=" :> 61) @@ ("_" :> 95)
Ord(c) == OrdTable[c]

\* a < b on str
RECURSIVE StrLess(_, _)
StrLess(a, b) ==
    IF b = <<>> THEN FALSE
    ELSE IF a = <<>> THEN TRUE
    ELSE IF Head(a) = Head(b) THEN StrLess(Tail(a), Tail(b))
    ELSE Ord(Head(a)) < Ord(Head(b))

\* str.startswith
StartsWith(s, prefix) ==
    Len(s) >= Len(prefix) /\ SubSeq(s, 1, Len(prefix)) = prefix

(***************************************************************************)
(* dict                                                                    *)
(***************************************************************************)
Item(k, v) == [k |-> k, v |-> v]
Keys(d) == {d[n].k : n \in 1..Len(d)}
HasKey(d, k) == k \in Keys(d)
\* d[k]
DictGet(d, k) == d[CHOOSE n \in 1..Len(d) : d[n].k = k].v

\* d[k] = v: an existing key keeps its place
DictSet(d, k, v) ==
    IF HasKey(d, k)
    THEN [n \in 1..Len(d) |-> IF d[n].k = k THEN Item(k, v) ELSE d[n]]
    ELSE Append(d, Item(k, v))

\* d.update(other)
RECURSIVE DictUpdate(_, _)
DictUpdate(d, other) ==
    IF other = <<>> THEN d
    ELSE DictUpdate(DictSet(d, Head(other).k, Head(other).v), Tail(other))

(***************************************************************************)
(* RestClient.generate_signature                                           *)
(***************************************************************************)
K_ts == <<"_">>
K_ackey == <<"_", "a", "c", "k", "e", "y">>
K_acsec == <<"_", "a", "c", "s", "e", "c">>
K_action == <<"_", "a", "c", "t", "i", "o", "n">>

\* signature_data = {...}; signature_data.update(data)
\* variant: the action is left out of the signed entries
SignatureDataNoAction(k, s, tstamp, action, data) ==
    DictUpdate(<<Item(K_ts, PyInt(tstamp)), Item(K_ackey, k), Item(K_acsec, s)>>, data)
SignatureData(k, s, tstamp, action, data) ==
    DictUpdate(<<Item(K_ts, PyInt(tstamp)), Item(K_ackey, k), Item(K_acsec, s),
                 Item(K_action, PyStr(action))>>, data)

\* one step of the stable sort: x goes after every item whose key is not greater
RECURSIVE InsertByKey(_, _)
InsertByKey(x, sorted) ==
    IF sorted = <<>> THEN <<x>>
    ELSE IF StrLess(x.k, Head(sorted).k) THEN <<x>> \o sorted
    ELSE <<Head(sorted)>> \o InsertByKey(x, Tail(sorted))

RECURSIVE SortFrom(_, _)
SortFrom(items, acc) ==
    IF items = <<>> THEN acc ELSE SortFrom(Tail(items), InsertByKey(Head(items), acc))

\* sorted(signature_data.items(), key=lambda t: t[0])
\* variant: the items are left in insertion order
SortedUnsorted(items) == items
Sorted(items) == SortFrom(items, <<>>)

\* converter(data): 'key=value', a list value joined without separator
Converter(item) ==
    IF item.v.t = "list"
    THEN Join(<<"=">>, <<item.k, JoinEmpty(item.v.l)>>)
    ELSE Join(<<"=">>, <<item.k, Str(item.v)>>)

\* signature_string = '&'.join(map(converter, sorted_signature_data.items()))
SignatureString(k, s, tstamp, action, data) ==
    LET sorted_signature_data == Sorted(SignatureData(k, s, tstamp, action, data))
        items == [n \in 1..Len(sorted_signature_data) |-> Converter(sorted_signature_data[n])]
    IN  Join(<<"&">>, items)

\* base64(sha256(string)): injective, the string kept as the digest's preimage
Sha256B64(string) == [sha256b64 |-> string]

\* sig = self.key + "." + str(tstamp) + "." + digest
GenerateSignature(k, s, tstamp, action, data) ==
    [prefix |-> k.s \o <<".">> \o IntToStr(tstamp) \o <<".">>,
     digest |-> Sha256B64(SignatureString(k, s, tstamp, action, data))]

(***************************************************************************)
(* The signature generator on pairs of inputs                              *)
(***************************************************************************)
Tstamps == (MaxTstamp - 1)..MaxTstamp

SignChars == {"a", "b", "&", "="}
SignParamKeys == {<<"b">>, <<"Z">>, K_acsec}
SignParamValues == {PyStr(<<"a", "=">>), PyInt(7), PyList(<<<<"a", "b">>, <<"a">>>>)}

\* the dicts of at most n items over the given keys and values, in every insertion order
RECURSIVE Dicts(_, _, _)
Dicts(n, ks, vs) ==
    IF n = 0 THEN {<<>>}
    ELSE LET shorter == Dicts(n - 1, ks, vs)
         IN  shorter \cup {Append(d, Item(k, v)) :
                              d \in {e \in shorter : Len(e) = n - 1}, k \in ks, v \in vs}

DistinctKeys(d) == Cardinality(Keys(d)) = Len(d)

SignInputs ==
    {[key |-> PyStr(<<"a">>), secret |-> PyStr(sec), action |-> act, tstamp |-> ts, data |-> d] :
        sec \in {<<"b">>, <<"a", "&">>}, act \in {<<"/", "a">>},
        ts \in Tstamps,
        d \in {e \in Dicts(MaxParams, SignParamKeys, SignParamValues) : DistinctKeys(e)}}

SignOf(in) == GenerateSignature(in.key, in.secret, in.tstamp, in.action, in.data)

\* cs with the character at position p replaced by c
Subst(cs, p, c) == [n \in 1..Len(cs) |-> IF n = p THEN c ELSE cs[n]]
\* the strings that differ from cs in exactly one character
OneCharOff(cs) == {Subst(cs, p, c) : p \in 1..Len(cs), c \in SignChars} \ {cs}
\* the digit strings that differ from ds in exactly one digit
OneDigitOff(ds) == {Subst(ds, p, Digit(m)) : p \in 1..Len(ds), m \in 0..9} \ {ds}
\* the values that differ from v in exactly one character of v or of one of its elements
ValueOneCharOff(v) ==
    CASE v.t = "str" -> {PyStr(cs) : cs \in OneCharOff(v.s)}
      [] v.t = "int" -> {PyInt(m) : m \in {n \in 0..99 :
                                            IntToStr(n) \in OneDigitOff(IntToStr(v.i))}}
      [] v.t = "list" -> UNION {{PyList([v.l EXCEPT ![n] = cs]) : cs \in OneCharOff(v.l[n])} :
                                   n \in 1..Len(v.l)}
      [] OTHER -> {}

\* the list values with the same elements joined, the boundary elsewhere
Resplits(v) ==
    LET cs == JoinEmpty(v.l)
    IN  ({<<cs>>} \cup {<<SubSeq(cs, 1, n), SubSeq(cs, n + 1, Len(cs))>> : n \in 0..Len(cs)})
        \ {v.l}

\* the orders in which the items of d can have been inserted
Reorderings(d) ==
    {[n \in 1..Len(d) |-> d[f[n]]] :
        f \in {g \in [1..Len(d) -> 1..Len(d)] : \A a, b \in 1..Len(d) : a # b => g[a] # g[b]}}

(***************************************************************************)
(* RestClient.__init__                                                     *)
(***************************************************************************)
DEFAULT_URL == <<"h", "t", "t", "p", "s", ":", "/", "/", "w", "w", "w", ".", "d", "e", "r", "i", "b", "i", "t", ".", "c", "o", "m">>
TEST_URL == <<"h", "t", "t", "p", "s", ":", "/", "/", "t", "e", "s", "t", ".", "d", "e", "r", "i", "b", "i", "t", ".", "c", "o", "m">>

\* self.key, self.secret, self.url after RestClient(key, secret, url)
RestClientInit(k, s, u) ==
    [key |-> k, secret |-> s, url |-> IF Truthy(u) THEN u.s ELSE DEFAULT_URL]

CtorKeys == {None, PyStr(<<>>), PyStr(<<"k">>)}
CtorSecrets == {None, PyStr(<<>>), PyStr(<<"s">>)}
CtorUrls == {None, PyStr(TEST_URL)}

(***************************************************************************)
(* RestClient.request                                                      *)
(***************************************************************************)
PRIVATE_PREFIX == <<"/", "a", "p", "i", "/", "v", "1", "/", "p", "r", "i", "v", "a", "t", "e", "/">>
PUBLIC_PREFIX == <<"/", "a", "p", "i", "/", "v", "1", "/", "p", "u", "b", "l", "i", "c", "/">>
OK_STATUS == 200

Raise(type, msg) == [kind |-> "raise", type |-> type, msg |-> msg]
Return(value) == [kind |-> "return", value |-> value]

MSG_CONFIG == <<"K", "e", "y", " ", "o", "r", " ", "s", "e", "c", "r", "e", "t", " ", "e", "m", "p", "t", "y">>
MSG_STATUS == <<"W", "r", "o", "n", "g", " ", "r", "e", "s", "p", "o", "n", "s", "e", " ", "c", "o", "d", "e", ":", " ">>
MSG_FAILED == <<"F", "a", "i", "l", "e", "d", ":", " ">>
OK_SENTINEL == PyStr(<<"O", "k">>)

\* variant: every path under /api/v1/ is taken as private
IsPrivateAnyApi(action) == StartsWith(action, SubSeq(PRIVATE_PREFIX, 1, 8))
\* action.startswith("/api/v1/private/")
IsPrivate(action) == StartsWith(action, PRIVATE_PREFIX)

\* self.key is None or self.secret is None
CredentialsMissing(k, s) == k = None \/ s = None

\* variant: the signing entries are merged into the caller's mapping
DataAfterSigningInPlace(k, s, tstamp, action, data) == SignatureData(k, s, tstamp, action, data)
\* the caller's mapping after generate_signature has run: signature_data is a
\* new dict, so update() leaves data as it was
DataAfterSigning(k, s, tstamp, action, data) == data

\* self.session.post(self.url + action, data=data, headers={'x-deribit-sig': signature}, verify=True)
Post(u, action, data, signature) ==
    [method |-> "POST", url |-> u \o action, sent |-> "data", mapping |-> data,
     headers |-> <<Item("x-deribit-sig", signature)>>, verify |-> TRUE]

\* self.session.get(self.url + action, params=data, verify=True)
Get(u, action, data) ==
    [method |-> "GET", url |-> u \o action, sent |-> "params", mapping |-> data,
     headers |-> <<>>, verify |-> TRUE]

\* variant: every 2xx status is accepted
StatusAny2xx(status_code) == status_code \div 100 # OK_STATUS \div 100
\* response.status_code != 200
StatusWrong(status_code) == status_code # OK_STATUS

\* lines 51-64: what request does with the response
HandleResponse(response) ==
    IF StatusWrong(response.status_code)
    THEN Raise("Exception", MSG_STATUS \o IntToStr(response.status_code))
    ELSE IF ~response.decodable THEN Raise("ValueError", <<>>)
    ELSE LET json == response.json IN
         IF ~HasKey(json, "success") THEN Raise("KeyError", <<"s", "u", "c", "c", "e", "s", "s">>)
         ELSE IF EqFalse(DictGet(json, "success"))
         THEN IF ~HasKey(json, "message") THEN Raise("KeyError", <<"m", "e", "s", "s", "a", "g", "e">>)
              ELSE IF DictGet(json, "message").t # "str" THEN Raise("TypeError", <<>>)
              ELSE Raise("Exception", MSG_FAILED \o DictGet(json, "message").s)
         ELSE IF HasKey(json, "result") THEN Return(DictGet(json, "result"))
         ELSE IF HasKey(json, "message") THEN Return(DictGet(json, "message"))
         ELSE Return(OK_SENTINEL)

\* request(action, data) of a client with the given key, secret and url, the clock
\* reading tstamp and the reply `response` to the HTTP request, if one is issued:
\* the outcome, the HTTP requests issued, the signatures computed, the reply
\* consumed and the caller's mapping afterwards
Request(k, s, u, action, data, tstamp, response) ==
    IF IsPrivate(action)
    THEN IF CredentialsMissing(k, s)
         THEN [outcome |-> Raise("Exception", MSG_CONFIG), http |-> <<>>, sigs |-> <<>>,
               response |-> <<>>, data |-> data]
         ELSE LET signature == GenerateSignature(k, s, tstamp, action, data)
                  after == DataAfterSigning(k, s, tstamp, action, data)
              IN  [outcome |-> HandleResponse(response),
                   http |-> <<Post(u, action, after, signature)>>,
                   sigs |-> <<[action |-> action, data |-> data, tstamp |-> tstamp,
                               signature |-> signature]>>,
                   response |-> <<response>>, data |-> after]
    ELSE [outcome |-> HandleResponse(response), http |-> <<Get(u, action, data)>>,
          sigs |-> <<>>, response |-> <<response>>, data |-> data]

\* the replies of the server
Statuses == {OK_STATUS, 201, 500}
Envelopes ==
    {su \o re \o me :
        su \in {<<>>, <<Item("success", PyBool(TRUE))>>, <<Item("success", PyBool(FALSE))>>,
                <<Item("success", PyInt(0))>>},
        re \in {<<>>, <<Item("result", PyInt(1))>>, <<Item("result", None)>>},
        me \in {<<>>, <<Item("message", PyStr(<<"m">>))>>, <<Item("message", None)>>}}
Responses ==
    {[status_code |-> st, decodable |-> TRUE, json |-> e] : st \in Statuses, e \in Envelopes}
    \cup {[status_code |-> st, decodable |-> FALSE, json |-> <<>>] : st \in Statuses}

\* the replies the endpoint methods are run against: one of each way request ends
EndpointResponses ==
    {[status_code |-> OK_STATUS, decodable |-> TRUE, json |-> e] :
        e \in {<<Item("success", PyBool(TRUE)), Item("result", PyInt(1))>>,
               <<Item("success", PyBool(TRUE)), Item("message", PyStr(<<"m">>))>>,
               <<Item("success", PyBool(TRUE))>>,
               <<Item("success", PyBool(FALSE)), Item("message", PyStr(<<"m">>))>>,
               <<Item("result", PyInt(1))>>}}
    \cup {[status_code |-> 500, decodable |-> FALSE, json |-> <<>>]}

(***************************************************************************)
(* The endpoint methods: the parameter mapping each one assembles          *)
(***************************************************************************)
K_instrument == <<"i", "n", "s", "t", "r", "u", "m", "e", "n", "t">>
K_count == <<"c", "o", "u", "n", "t">>
K_since == <<"s", "i", "n", "c", "e">>
K_quantity == <<"q", "u", "a", "n", "t", "i", "t", "y">>
K_price == <<"p", "r", "i", "c", "e">>
K_label == <<"l", "a", "b", "e", "l">>
K_postOnly == <<"p", "o", "s", "t", "O", "n", "l", "y">>
K_orderId == <<"o", "r", "d", "e", "r", "I", "d">>
K_type == <<"t", "y", "p", "e">>
K_startTradeId == <<"s", "t", "a", "r", "t", "T", "r", "a", "d", "e", "I", "d">>
ALL == PyStr(<<"a", "l", "l">>)

\* if value: options[key] = value
SetIfTruthy(options, k, value) == IF Truthy(value) THEN DictSet(options, k, value) ELSE options

getorderbook_options(instrument) == <<Item(K_instrument, instrument)>>

getlasttrades_options(instrument, count, since) ==
    LET options == <<Item(K_instrument, instrument)>>
        options1 == SetIfTruthy(options, K_since, since)
    IN  SetIfTruthy(options1, K_count, count)

getsummary_options(instrument) == <<Item(K_instrument, instrument)>>

\* buy and sell
order_options(instrument, quantity, price, postOnly, label) ==
    LET options == <<Item(K_instrument, instrument), Item(K_quantity, quantity),
                     Item(K_price, price)>>
        options1 == SetIfTruthy(options, K_label, label)
    IN  SetIfTruthy(options1, K_postOnly, postOnly)

cancel_options(orderId) == <<Item(K_orderId, orderId)>>

cancelall_options(typeDef) == <<Item(K_type, typeDef)>>

edit_options(orderId, quantity, price) ==
    <<Item(K_orderId, orderId), Item(K_quantity, quantity), Item(K_price, price)>>

getopenorders_options(instrument, orderId) ==
    SetIfTruthy(SetIfTruthy(<<>>, K_instrument, instrument), K_orderId, orderId)

orderhistory_options(count) == SetIfTruthy(<<>>, K_count, count)

\* variant: countNum is tested against None instead of for truth
tradehistory_options_NotNone(countNum, instrument, startTradeId) ==
    LET options == <<Item(K_instrument, instrument)>>
        options1 == IF countNum # None THEN DictSet(options, K_count, countNum) ELSE options
    IN  SetIfTruthy(options1, K_startTradeId, startTradeId)
tradehistory_options(countNum, instrument, startTradeId) ==
    LET options == <<Item(K_instrument, instrument)>>
        options1 == SetIfTruthy(options, K_count, countNum)
    IN  SetIfTruthy(options1, K_startTradeId, startTradeId)

\* the arguments the callers pass
BTC == PyStr(<<"B", "T", "C">>)
Instruments == {BTC}
Quantities == {PyInt(0), PyInt(1)}
Prices == {PyInt(2)}
OrderIds == {PyInt(3)}
OptInts == {None, PyInt(0), PyInt(5)}
OptBools == {None, PyBool(FALSE), PyBool(TRUE)}
OptStrs == {None, PyStr(<<>>), PyStr(<<"l", "b">>)}
OptInstruments == {None, PyStr(<<>>), BTC}
TypeDefs == {ALL, PyStr(<<"f", "u", "t", "u", "r", "e", "s">>), PyStr(<<>>), None}
HistoryInstruments == {ALL, BTC}

(***************************************************************************)
(* The client: one call at a time, each call one step                      *)
(***************************************************************************)
NoCall == [method |-> "", args |-> [none |-> None], action |-> <<>>, data |-> <<>>,
           response |-> <<>>]
NoOutcome == [kind |-> "none"]
NoInput == [key |-> None, secret |-> None, action |-> <<>>, tstamp |-> 0, data |-> <<>>]

Init ==
    /\ \E k \in CtorKeys, s \in CtorSecrets, u \in CtorUrls :
          LET self == RestClientInit(k, s, u)
          IN  /\ key = self.key
              /\ secret = self.secret
              /\ url = self.url
              /\ ctor = [key |-> k, secret |-> s, url |-> u]
    /\ pc = "idle"
    /\ call = NoCall
    /\ callerData = <<>>
    /\ http = <<>>
    /\ sigs = <<>>
    /\ outcome = NoOutcome
    /\ signA = NoInput
    /\ signB = NoInput
    /\ signRel = "none"
    /\ sigA = <<>>
    /\ sigB = <<>>

\* a method of the client calls self.request(action, data) and hands its outcome on
Invoke(method, args, action, data, responses) ==
    /\ \E tstamp \in Tstamps, response \in responses :
          LET r == Request(key, secret, url, action, data, tstamp, response)
          IN  /\ call' = [method |-> method, args |-> args, action |-> action,
                          data |-> data, response |-> r.response]
              /\ callerData' = r.data
              /\ http' = r.http
              /\ sigs' = r.sigs
              /\ outcome' = r.outcome
    /\ pc' = "done"
    /\ UNCHANGED <<key, secret, url, ctor, signVars>>

RawActions ==
    {PRIVATE_PREFIX \o <<"x">>, PUBLIC_PREFIX \o <<"x">>,
     SubSeq(PRIVATE_PREFIX, 1, Len(PRIVATE_PREFIX) - 1), <<"x">> \o PRIVATE_PREFIX}
RawData ==
    {<<>>, <<Item(K_instrument, BTC)>>, <<Item(K_acsec, PyStr(<<"z">>))>>,
     <<Item(K_label, PyList(<<<<"a">>, <<"b">>>>)), Item(K_count, PyInt(5))>>}

request ==
    /\ pc = "idle"
    /\ \E action \in RawActions, data \in RawData :
          Invoke("request", [none |-> None], action, data, Responses)

getorderbook ==
    /\ pc = "idle"
    /\ \E instrument \in Instruments :
          Invoke("getorderbook", [instrument |-> instrument],
                 PUBLIC_PREFIX \o <<"g", "e", "t", "o", "r", "d", "e", "r", "b", "o", "o", "k">>,
                 getorderbook_options(instrument), EndpointResponses)

getinstruments ==
    /\ pc = "idle"
    /\ Invoke("getinstruments", [none |-> None],
                  PUBLIC_PREFIX \o <<"g", "e", "t", "i", "n", "s", "t", "r", "u", "m", "e", "n", "t", "s">>,
                  <<>>, EndpointResponses)

getcurrencies ==
    /\ pc = "idle"
    /\ Invoke("getcurrencies", [none |-> None],
                  PUBLIC_PREFIX \o <<"g", "e", "t", "c", "u", "r", "r", "e", "n", "c", "i", "e", "s">>,
                  <<>>, EndpointResponses)

getlasttrades ==
    /\ pc = "idle"
    /\ \E instrument \in Instruments, count \in OptInts, since \in OptInts :
          Invoke("getlasttrades", [instrument |-> instrument, count |-> count, since |-> since],
                 PUBLIC_PREFIX \o <<"g", "e", "t", "l", "a", "s", "t", "t", "r", "a", "d", "e", "s">>,
                 getlasttrades_options(instrument, count, since), EndpointResponses)

getsummary ==
    /\ pc = "idle"
    /\ \E instrument \in Instruments :
          Invoke("getsummary", [instrument |-> instrument],
                 PUBLIC_PREFIX \o <<"g", "e", "t", "s", "u", "m", "m", "a", "r", "y">>,
                 getsummary_options(instrument), EndpointResponses)

index ==
    /\ pc = "idle"
    /\ Invoke("index", [none |-> None],
                  PUBLIC_PREFIX \o <<"i", "n", "d", "e", "x">>,
                  <<>>, EndpointResponses)

stats ==
    /\ pc = "idle"
    /\ Invoke("stats", [none |-> None],
                  PUBLIC_PREFIX \o <<"s", "t", "a", "t", "s">>,
                  <<>>, EndpointResponses)

account ==
    /\ pc = "idle"
    /\ Invoke("account", [none |-> None],
                  PRIVATE_PREFIX \o <<"a", "c", "c", "o", "u", "n", "t">>,
                  <<>>, EndpointResponses)

buy ==
    /\ pc = "idle"
    /\ \E instrument \in Instruments, quantity \in Quantities, price \in Prices,
          postOnly \in OptBools, label \in OptStrs :
          Invoke("buy", [instrument |-> instrument, quantity |-> quantity, price |-> price,
                         postOnly |-> postOnly, label |-> label],
                 PRIVATE_PREFIX \o <<"b", "u", "y">>,
                 order_options(instrument, quantity, price, postOnly, label), EndpointResponses)

sell ==
    /\ pc = "idle"
    /\ \E instrument \in Instruments, quantity \in Quantities, price \in Prices,
          postOnly \in OptBools, label \in OptStrs :
          Invoke("sell", [instrument |-> instrument, quantity |-> quantity, price |-> price,
                         postOnly |-> postOnly, label |-> label],
                 PRIVATE_PREFIX \o <<"s", "e", "l", "l">>,
                 order_options(instrument, quantity, price, postOnly, label), EndpointResponses)

cancel ==
    /\ pc = "idle"
    /\ \E orderId \in OrderIds :
          Invoke("cancel", [orderId |-> orderId],
                 PRIVATE_PREFIX \o <<"c", "a", "n", "c", "e", "l">>,
                 cancel_options(orderId), EndpointResponses)

cancelall ==
    /\ pc = "idle"
    /\ \E typeDef \in TypeDefs :
          Invoke("cancelall", [typeDef |-> typeDef],
                 PRIVATE_PREFIX \o <<"c", "a", "n", "c", "e", "l", "a", "l", "l">>,
                 cancelall_options(typeDef), EndpointResponses)

edit ==
    /\ pc = "idle"
    /\ \E orderId \in OrderIds, quantity \in Quantities, price \in Prices :
          Invoke("edit", [orderId |-> orderId, quantity |-> quantity, price |-> price],
                 PRIVATE_PREFIX \o <<"e", "d", "i", "t">>,
                 edit_options(orderId, quantity, price), EndpointResponses)

getopenorders ==
    /\ pc = "idle"
    /\ \E instrument \in OptInstruments, orderId \in OptInts :
          Invoke("getopenorders", [instrument |-> instrument, orderId |-> orderId],
                 PRIVATE_PREFIX \o <<"g", "e", "t", "o", "p", "e", "n", "o", "r", "d", "e", "r", "s">>,
                 getopenorders_options(instrument, orderId), EndpointResponses)

positions ==
    /\ pc = "idle"
    /\ Invoke("positions", [none |-> None],
                  PRIVATE_PREFIX \o <<"p", "o", "s", "i", "t", "i", "o", "n", "s">>,
                  <<>>, EndpointResponses)

orderhistory ==
    /\ pc = "idle"
    /\ \E count \in OptInts :
          Invoke("orderhistory", [count |-> count],
                 PRIVATE_PREFIX \o <<"o", "r", "d", "e", "r", "h", "i", "s", "t", "o", "r", "y">>,
                 orderhistory_options(count), EndpointResponses)

tradehistory ==
    /\ pc = "idle"
    /\ \E countNum \in OptInts, instrument \in HistoryInstruments, startTradeId \in OptInts :
          Invoke("tradehistory", [countNum |-> countNum, instrument |-> instrument,
                                  startTradeId |-> startTradeId],
                 PRIVATE_PREFIX \o <<"t", "r", "a", "d", "e", "h", "i", "s", "t", "o", "r", "y">>,
                 tradehistory_options(countNum, instrument, startTradeId), EndpointResponses)

\* the caller takes the outcome; the client is ready for the next call
CallerContinues ==
    /\ pc = "done"
    /\ pc' = "idle"
    /\ call' = NoCall
    /\ callerData' = <<>>
    /\ http' = <<>>
    /\ sigs' = <<>>
    /\ outcome' = NoOutcome
    /\ UNCHANGED <<key, secret, url, ctor, signVars>>

Next ==
    \/ request
    \/ getorderbook
    \/ getinstruments
    \/ getcurrencies
    \/ getlasttrades
    \/ getsummary
    \/ index
    \/ stats
    \/ account
    \/ buy
    \/ sell
    \/ cancel
    \/ cancelall
    \/ edit
    \/ getopenorders
    \/ positions
    \/ orderhistory
    \/ tradehistory
    \/ CallerContinues

Spec == Init /\ [][Next]_vars

(***************************************************************************)
(* generate_signature applied to an input and to a variant of it           *)
(***************************************************************************)
InitSign ==
    /\ key = None
    /\ secret = None
    /\ url = DEFAULT_URL
    /\ ctor = [key |-> None, secret |-> None, url |-> None]
    /\ pc = "idle"
    /\ call = NoCall
    /\ callerData = <<>>
    /\ http = <<>>
    /\ sigs = <<>>
    /\ outcome = NoOutcome
    /\ signA \in SignInputs
    /\ signB = signA
    /\ signRel = "same"
    /\ sigA = <<>>
    /\ sigB = <<>>

Vary(in, rel) ==
    /\ signRel = "same"
    /\ sigA = <<>>
    /\ signB' = in
    /\ signRel' = rel
    /\ UNCHANGED <<clientVars, signA, sigA, sigB>>

\* the same entries inserted in another order
Reorder ==
    \E d \in Reorderings(signA.data) \ {signA.data} :
        Vary([signA EXCEPT !.data = d], "order")

\* one character of the access key changed
ChangeKey ==
    \E cs \in OneCharOff(signA.key.s) :
        Vary([signA EXCEPT !.key = PyStr(cs)], "char")

\* one character of the access secret changed
ChangeSecret ==
    \E cs \in OneCharOff(signA.secret.s) :
        Vary([signA EXCEPT !.secret = PyStr(cs)], "char")

\* one character of the action changed
ChangeAction ==
    \E cs \in OneCharOff(signA.action) :
        Vary([signA EXCEPT !.action = cs], "char")

\* one character of one parameter value changed
ChangeValue ==
    \E n \in 1..Len(signA.data) :
        \E v \in ValueOneCharOff(signA.data[n].v) :
            Vary([signA EXCEPT !.data[n].v = v], "char")

\* the elements of a list value cut at another place
Resplit ==
    \E n \in 1..Len(signA.data) :
        /\ signA.data[n].v.t = "list"
        /\ \E l \in Resplits(signA.data[n].v) :
              Vary([signA EXCEPT !.data[n].v = PyList(l)], "split")

\* both inputs signed at the same clock reading
generate_signature ==
    /\ sigA = <<>>
    /\ sigA' = <<SignOf(signA)>>
    /\ sigB' = <<SignOf(signB)>>
    /\ UNCHANGED <<clientVars, signA, signB, signRel>>

NextSign ==
    \/ Reorder
    \/ ChangeKey
    \/ ChangeSecret
    \/ ChangeAction
    \/ ChangeValue
    \/ Resplit
    \/ generate_signature

SpecSign == InitSign /\ [][NextSign]_vars

Signed == sigA # <<>>
SigningString(sig) == sig[1].digest.sha256b64

(***************************************************************************)
(* Properties of request                                                   *)
(***************************************************************************)
Done == pc = "done"
Replied == Done /\ call.response # <<>>
Reply == call.response[1]
PrivateCall == StartsWith(call.action, PRIVATE_PREFIX)
IsConfigurationError(o) == o = Raise("Exception", MSG_CONFIG)
IsTransportError(o) ==
    o.kind = "raise" /\ o.type = "Exception" /\ StartsWith(o.msg, MSG_STATUS)
IsApplicationError(o) ==
    o.kind = "raise" /\ o.type = "Exception" /\ StartsWith(o.msg, MSG_FAILED)

\* C1: a private call of a client whose key or secret is None or empty fails
\* with the configuration error, and no HTTP request has been issued and no
\* signature computed.
C1_NoCredentialsNoIO ==
    (Done /\ PrivateCall /\ (~Truthy(key) \/ ~Truthy(secret)))
        => (IsConfigurationError(outcome) /\ http = <<>> /\ sigs = <<>>)

\* C2: every HTTP request follows the routing rule: a private action is a POST
\* to url + action with data as form body and the header holding the signature
\* of that action and data; any other action is a GET to url + action with data
\* as query parameters, no header and no signature computed.
C2_Routing ==
    Done =>
        /\ \A n \in 1..Len(http) :
              IF PrivateCall
              THEN /\ http[n].method = "POST"
                   /\ http[n].url = url \o call.action
                   /\ http[n].sent = "data"
                   /\ http[n].mapping = call.data
                   /\ Len(sigs) = 1
                   /\ sigs[1].action = call.action
                   /\ sigs[1].data = call.data
                   /\ sigs[1].signature =
                          GenerateSignature(key, secret, sigs[1].tstamp, call.action, call.data)
                   /\ http[n].headers = <<Item("x-deribit-sig", sigs[1].signature)>>
              ELSE /\ http[n].method = "GET"
                   /\ http[n].url = url \o call.action
                   /\ http[n].sent = "params"
                   /\ http[n].mapping = call.data
                   /\ http[n].headers = <<>>
        /\ ~PrivateCall => sigs = <<>>

C2_Witness ==
    /\ Done
    /\ PrivateCall
    /\ Len(http) = 1
    /\ http[1].method = "POST"
    /\ call.data # <<>>

\* C3: a reply whose status code is not 200 ends the call with the transport
\* error naming that status code, whatever the body is.
C3_StatusFirst ==
    (Replied /\ Reply.status_code # OK_STATUS)
        => outcome = Raise("Exception", MSG_STATUS \o IntToStr(Reply.status_code))

C3_Witness ==
    /\ Replied
    /\ Reply.status_code = 500
    /\ Reply.decodable
    /\ HasKey(Reply.json, "result")
    /\ HasKey(Reply.json, "success")
    /\ DictGet(Reply.json, "success") = PyBool(TRUE)
    /\ IsTransportError(outcome)

FailureEnvelope ==
    /\ Replied
    /\ Reply.status_code = OK_STATUS
    /\ Reply.decodable
    /\ HasKey(Reply.json, "success")
    /\ DictGet(Reply.json, "success") = PyBool(FALSE)

\* C4: a 200 reply whose envelope has success equal to false ends the call with
\* the application error carrying the text of the envelope's message, and never
\* returns a payload, even when the envelope has a result.
C4_ExplicitFailure ==
    FailureEnvelope =>
        /\ IsApplicationError(outcome)
        /\ (HasKey(Reply.json, "message") /\ DictGet(Reply.json, "message").t = "str")
              => outcome.msg = MSG_FAILED \o DictGet(Reply.json, "message").s

\* C5: a 200 reply whose envelope is not an explicit failure (success absent, or
\* not false) makes the call return the result if there is one, else the
\* message if there is one, else "Ok"; the call does not fail.
C5_Unwrap ==
    (Replied /\ Reply.status_code = OK_STATUS /\ Reply.decodable /\ ~FailureEnvelope)
        => outcome = Return(IF HasKey(Reply.json, "result") THEN DictGet(Reply.json, "result")
                            ELSE IF HasKey(Reply.json, "message")
                                 THEN DictGet(Reply.json, "message")
                                 ELSE OK_SENTINEL)

\* C7: a call ends in one outcome, a payload or a configuration, transport or
\* application error, after at most one HTTP request: none when the outcome is
\* the configuration error, exactly one otherwise.
C7_OneOutcomeOneRequest ==
    Done =>
        /\ \/ outcome.kind = "return"
           \/ IsConfigurationError(outcome)
           \/ IsTransportError(outcome)
           \/ IsApplicationError(outcome)
        /\ Len(http) <= 1
        /\ Len(http) = 0 <=> IsConfigurationError(outcome)

(***************************************************************************)
(* Properties of the endpoint methods                                      *)
(***************************************************************************)
\* the key an argument is sent under
ArgKey(arg) ==
    CASE arg = "instrument" -> K_instrument
      [] arg = "count" -> K_count
      [] arg = "countNum" -> K_count
      [] arg = "since" -> K_since
      [] arg = "quantity" -> K_quantity
      [] arg = "price" -> K_price
      [] arg = "label" -> K_label
      [] arg = "postOnly" -> K_postOnly
      [] arg = "orderId" -> K_orderId
      [] arg = "typeDef" -> K_type
      [] arg = "startTradeId" -> K_startTradeId

\* the required arguments and those with a fixed default
TableRequired(m) ==
    CASE m \in {"getorderbook", "getsummary", "getlasttrades", "tradehistory"} -> {"instrument"}
      [] m \in {"buy", "sell"} -> {"instrument", "quantity", "price"}
      [] m = "cancel" -> {"orderId"}
      [] m = "edit" -> {"orderId", "quantity", "price"}
      [] OTHER -> {}

\* the optional arguments
TableOptional(m) ==
    CASE m = "getlasttrades" -> {"count", "since"}
      [] m \in {"buy", "sell"} -> {"postOnly", "label"}
      [] m = "cancelall" -> {"typeDef"}
      [] m = "getopenorders" -> {"instrument", "orderId"}
      [] m = "orderhistory" -> {"count"}
      [] m = "tradehistory" -> {"countNum", "startTradeId"}
      [] OTHER -> {}

\* the mapping handed to request holds the arguments of `always` and those of
\* `optional` that are truthy, each with the value given, and nothing else
FollowsTable(always, optional) ==
    LET d == call.data
        a == call.args
    IN  /\ DistinctKeys(d)
        /\ Keys(d) = {ArgKey(x) : x \in always}
                        \cup {ArgKey(x) : x \in {o \in optional : Truthy(a[o])}}
        /\ \A x \in always \cup optional :
              HasKey(d, ArgKey(x)) => DictGet(d, ArgKey(x)) = a[x]

EndpointCall == Done /\ call.method # "request"

NoArgumentScenarios ==
    /\ (call.method = "tradehistory"
          /\ call.args = [countNum |-> None, instrument |-> ALL, startTradeId |-> None])
          => call.data = <<Item(K_instrument, ALL)>>
    /\ (call.method = "cancelall" /\ call.args = [typeDef |-> ALL])
          => call.data = <<Item(K_type, ALL)>>

\* C6 as stated: the mapping of every endpoint method holds the key of an
\* optional argument, typeDef of cancelall among them, exactly when the
\* argument is truthy, and then with the value given.
C6_OptionalIffTruthy ==
    EndpointCall =>
        /\ FollowsTable(TableRequired(call.method), TableOptional(call.method))
        /\ NoArgumentScenarios

\* C6 amended: as stated for every endpoint method but cancelall, whose typeDef
\* is sent under "type" whatever its value, truthy or not.
C6_OptionalIffTruthyButType ==
    EndpointCall =>
        /\ IF call.method = "cancelall"
           THEN FollowsTable({"typeDef"}, {})
           ELSE FollowsTable(TableRequired(call.method), TableOptional(call.method))
        /\ NoArgumentScenarios

C6_Witness ==
    /\ EndpointCall
    /\ call.method = "tradehistory"
    /\ call.args.countNum = PyInt(0)
    /\ Truthy(call.args.startTradeId)
    /\ Keys(call.data) = {K_instrument, K_startTradeId}

(***************************************************************************)
(* Frame                                                                   *)
(***************************************************************************)
\* C10: key, secret and url stay as constructed; a call leaves the caller's
\* mapping as it was, transmits exactly that mapping, and the header holds the
\* key, the clock reading and the digest, so that the secret is sent in no
\* field.
C10_Frame ==
    /\ key = ctor.key
    /\ secret = ctor.secret
    /\ url = (IF Truthy(ctor.url) THEN ctor.url.s ELSE DEFAULT_URL)
    /\ Done =>
          /\ callerData = call.data
          /\ \A n \in 1..Len(http) :
                /\ http[n].mapping = call.data
                /\ http[n].url = url \o call.action
                /\ \A h \in 1..Len(http[n].headers) :
                      LET sig == http[n].headers[h].v
                      IN  /\ sig.prefix = key.s \o <<".">> \o IntToStr(sigs[1].tstamp) \o <<".">>
                          /\ sig.digest = Sha256B64(SignatureString(key, secret, sigs[1].tstamp,
                                                                    call.action, call.data))

C10_Witness ==
    /\ Done
    /\ Len(http) = 1
    /\ http[1].method = "POST"
    /\ call.method = "request"
    /\ call.data # <<>>
    /\ outcome.kind = "raise"

(***************************************************************************)
(* Properties of generate_signature                                        *)
(***************************************************************************)
FixedEntry(in, k) ==
    CASE k = K_ts -> PyInt(in.tstamp)
      [] k = K_ackey -> in.key
      [] k = K_acsec -> in.secret
      [] k = K_action -> PyStr(in.action)

\* the value signed under key k: the caller's, if the caller gives one
MergedValue(in, k) == IF HasKey(in.data, k) THEN DictGet(in.data, k) ELSE FixedEntry(in, k)

\* the keys of S in ascending order
RECURSIVE Ascending(_)
Ascending(S) ==
    IF S = {} THEN <<>>
    ELSE LET least == CHOOSE k \in S : \A j \in S \ {k} : StrLess(k, j)
         IN  <<least>> \o Ascending(S \ {least})

Rendered(v) == IF v.t = "list" THEN JoinEmpty(v.l) ELSE Str(v)

\* key=value of the merged entries, by ascending key, joined by &
ExpectedSigningString(in) ==
    LET ks == Ascending(Keys(in.data) \cup {K_ts, K_ackey, K_acsec, K_action})
    IN  Join(<<"&">>, [n \in 1..Len(ks) |-> ks[n] \o <<"=">> \o Rendered(MergedValue(in, ks[n]))])

\* C8: the signing string lists the merged entries as key=value by ascending
\* key joined by &, the caller's value winning a collision; the same entries
\* inserted in another order give the same signing string and signature.
C8_OrderIndependent ==
    Signed =>
        /\ SigningString(sigA) = ExpectedSigningString(signA)
        /\ SigningString(sigB) = ExpectedSigningString(signB)
        /\ signRel = "order" => (SigningString(sigA) = SigningString(sigB) /\ sigA = sigB)

C8_Witness ==
    /\ Signed
    /\ signRel = "order"
    /\ signA.data # signB.data
    /\ HasKey(signA.data, K_acsec)
    /\ HasKey(signA.data, <<"Z">>)

\* C9 as stated: changing one character of the key, the secret, the action or
\* a parameter value changes the signing string and the signature.
C9_Sensitive ==
    (Signed /\ signRel = "char")
        => (SigningString(sigA) # SigningString(sigB) /\ sigA # sigB)

ReservedKeys == {K_ts, K_ackey, K_acsec, K_action}

\* C9 amended: it does so when params holds none of the keys _, _ackey, _acsec
\* and _action; list values that differ only in where their elements are cut
\* have the same signing string and signature.
C9_SensitiveUnlessOverridden ==
    Signed =>
        /\ (signRel = "char" /\ Keys(signA.data) \cap ReservedKeys = {})
              => (SigningString(sigA) # SigningString(sigB) /\ sigA # sigB)
        /\ signRel = "split" => sigA = sigB

C9_Witness ==
    /\ Signed
    /\ signRel = "char"
    /\ Keys(signA.data) \cap ReservedKeys = {}
    /\ signA.secret # signB.secret
    /\ \E n \in 1..Len(signA.data) : signA.data[n].v.t = "list"

====
